---- MODULE Spec2Model ----
(***************************************************************************)
(* Model of src/src/renderer.ts: the Renderer class that draws one frame   *)
(* of a game world on a 2D canvas.  The drawing context is modelled as a   *)
(* recording surface: its graphics state (transform, styles, save stack)   *)
(* and the sequence of draw calls of the current frame.  Numbers are exact *)
(* rationals <<n, d>> with d > 0, and <<0, 0>> for NaN; `undefined` (an     *)
(* array read past its end, a missing table entry) is the empty tuple.     *)
(***************************************************************************)
EXTENDS Integers, Sequences, FiniteSets, TLC

VARIABLES
    healthBars,       \* Renderer.healthBars (renderer.ts:30)
    metadata,         \* Renderer.metadata.types: type code -> maxHealth
    counter,          \* the mousedown closure's counter (renderer.ts:52)
    indicatorString,  \* controls' indicator string 0 (renderer.ts:56)
    ctx,              \* the 2D context's drawing state: [gs, stack]
    frame,            \* record of the most recent render call, or NoFrame
    prev,             \* record of the render call before a repeated one
    toggles,          \* history: number of toggleHealthBars calls so far
    pc                \* "idle" | "rendered" | "again"

vars == <<healthBars, metadata, counter, indicatorString, ctx, frame, prev, toggles, pc>>

(***************************************************************************)
(* Bounds of the model.                                                    *)
(***************************************************************************)
MaxBodies == 2
MaxBullets == 1
MaxClicks == 1
MaxToggles == 2
MaxDepth == 1

(***************************************************************************)
(* Numbers.                                                                *)
(***************************************************************************)
NaN == <<0, 0>>
Undefined == <<>>

Abs(n) == IF n < 0 THEN -n ELSE n

RECURSIVE Gcd(_, _)
Gcd(a, b) == IF b = 0 THEN a ELSE Gcd(b, a % b)

\* the rational n/d in lowest terms with a positive denominator; n/0 is NaN
Q(n, d) ==
    IF d = 0 THEN NaN
    ELSE LET g == Gcd(Abs(n), Abs(d))
             s == IF d < 0 THEN -1 ELSE 1
         IN  <<(s * n) \div g, (s * d) \div g>>

R(n) == <<n, 1>>
IsNaN(a) == a[2] = 0
\* ToNumber of an array element: undefined converts to NaN
ToNum(v) == IF v = Undefined THEN NaN ELSE v

\* sums and comparisons go through the least common denominator
Lcd(a, b) == (a[2] \div Gcd(a[2], b[2])) * b[2]
OnLcd(a, b) == a[1] * (Lcd(a, b) \div a[2])

Add(a, b) == IF IsNaN(a) \/ IsNaN(b) THEN NaN ELSE Q(OnLcd(a, b) + OnLcd(b, a), Lcd(a, b))
Sub(a, b) == IF IsNaN(a) \/ IsNaN(b) THEN NaN ELSE Q(OnLcd(a, b) - OnLcd(b, a), Lcd(a, b))
Mul(a, b) == IF IsNaN(a) \/ IsNaN(b) THEN NaN ELSE Q(a[1] * b[1], a[2] * b[2])
Div(a, b) == IF IsNaN(a) \/ IsNaN(b) THEN NaN ELSE Q(a[1] * b[2], a[2] * b[1])
Neg(a) == Sub(R(0), a)
\* a >= b; every comparison with NaN is false
Geq(a, b) == ~IsNaN(a) /\ ~IsNaN(b) /\ OnLcd(a, b) >= OnLcd(b, a)

\* arr[i] of a zero-based array: undefined past the end
At(arr, i) == IF i + 1 \in DOMAIN arr THEN arr[i + 1] ELSE Undefined

(***************************************************************************)
(* Constants of renderer.ts.                                               *)
(***************************************************************************)
BULLET_SIZE == Q(1, 4)
BULLET_SIZE_HALF == Div(BULLET_SIZE, R(2))
INDICATOR_DOT_SIZE == Q(1, 4)
INDICATOR_LINE_WIDTH == Q(1, 10)
HEALTH_BAR_HEIGHT == Q(3, 10)
HEALTH_BAR_WIDTH == R(2)
HEALTH_BAR_WIDTH_HALF == Div(HEALTH_BAR_WIDTH, R(2))
HIGH_SPEED_THRESH == Sub(Mul(R(2), R(2)), Q(1, 100000))
MED_SPEED_THRESH == Sub(Mul(Q(3, 2), Q(3, 2)), Q(1, 100000))

ARCHON == "ARCHON"
GARDENER == "GARDENER"
LUMBERJACK == "LUMBERJACK"
RECRUIT == "RECRUIT"
SOLDIER == "SOLDIER"
TANK == "TANK"
SCOUT == "SCOUT"
TREE_BULLET == "TREE_BULLET"
TREE_NEUTRAL == "TREE_NEUTRAL"
\* a body-type code that is none of the nine above
OTHER_TYPE == "OTHER"

KnownTypes == {ARCHON, GARDENER, LUMBERJACK, RECRUIT, SOLDIER, TANK, SCOUT,
               TREE_BULLET, TREE_NEUTRAL}
TypeCodes == KnownTypes \cup {OTHER_TYPE}

(***************************************************************************)
(* The sprite bundle (AllImages).  A per-kind table holds one image per    *)
(* team index in SpriteTeams; indexing it with any other team yields       *)
(* undefined.                                                              *)
(***************************************************************************)
SpriteTeams == {0, 1}
ImgRobot(kind, team) == IF team \in SpriteTeams THEN <<"robot", kind, team>> ELSE Undefined
ImgTreeFullHealth == <<"tree", "fullHealth">>
ImgUnknown == <<"unknown">>
ImgBulletFast == <<"bullet", "fast">>
ImgBulletMedium == <<"bullet", "medium">>
ImgBulletSlow == <<"bullet", "slow">>
BgPattern == "bgPattern"

(***************************************************************************)
(* The 2D drawing context.  A canvas value c is                            *)
(*   [gs, stack, calls, thrown]                                            *)
(* gs is the current graphics state (transform matrix [a 0 0 d e f] and    *)
(* the styles), stack the states pushed by save(), calls the draw calls    *)
(* issued so far in this frame, thrown whether an exception is             *)
(* propagating (after which no further statement of render executes).      *)
(***************************************************************************)
CanvasWidth == 20

DefaultGs == [a |-> R(1), d |-> R(1), e |-> R(0), f |-> R(0),
              fillStyle |-> "#000000", strokeStyle |-> "#000000", lineWidth |-> R(1)]

\* a colour assigned to fillStyle/strokeStyle reads back in serialised form
CssColor(v) ==
    CASE v = "green" -> "#008000"
      [] v = "black" -> "#000000"
      [] OTHER -> v

Call(c, op, args) == [op |-> op, args |-> args, gs |-> c.gs, depth |-> Len(c.stack)]

Save(c) == IF c.thrown THEN c ELSE [c EXCEPT !.stack = Append(c.stack, c.gs)]

Restore(c) ==
    IF c.thrown \/ c.stack = <<>> THEN c
    ELSE [c EXCEPT !.gs = c.stack[Len(c.stack)],
                   !.stack = SubSeq(c.stack, 1, Len(c.stack) - 1)]

\* scale() and translate() with a non-finite argument do nothing
Scale(c, sx, sy) ==
    IF c.thrown \/ IsNaN(sx) \/ IsNaN(sy) THEN c
    ELSE [c EXCEPT !.gs.a = Mul(c.gs.a, sx), !.gs.d = Mul(c.gs.d, sy)]

Translate(c, tx, ty) ==
    IF c.thrown \/ IsNaN(tx) \/ IsNaN(ty) THEN c
    ELSE [c EXCEPT !.gs.e = Add(c.gs.e, Mul(c.gs.a, tx)),
                   !.gs.f = Add(c.gs.f, Mul(c.gs.d, ty))]

SetFillStyle(c, v) == IF c.thrown THEN c ELSE [c EXCEPT !.gs.fillStyle = CssColor(v)]
SetStrokeStyle(c, v) == IF c.thrown THEN c ELSE [c EXCEPT !.gs.strokeStyle = CssColor(v)]

\* lineWidth ignores zero, negative and non-finite values
SetLineWidth(c, w) ==
    IF c.thrown \/ ~Geq(w, R(0)) \/ w = R(0) THEN c
    ELSE [c EXCEPT !.gs.lineWidth = w]

FillRect(c, x, y, w, h) ==
    IF c.thrown THEN c
    ELSE [c EXCEPT !.calls = Append(c.calls, Call(c, "fillRect", <<x, y, w, h>>))]

StrokeRect(c, x, y, w, h) ==
    IF c.thrown THEN c
    ELSE [c EXCEPT !.calls = Append(c.calls, Call(c, "strokeRect", <<x, y, w, h>>))]

\* drawImage(undefined, ...) raises a TypeError; nothing is drawn
DrawImage(c, img, x, y, w, h) ==
    IF c.thrown THEN c
    ELSE IF img = Undefined THEN [c EXCEPT !.thrown = TRUE]
    ELSE [c EXCEPT !.calls = Append(c.calls, Call(c, "drawImage", <<img, x, y, w, h>>))]

(***************************************************************************)
(* Renderer methods.  `this` is [healthBars, metadata].                    *)
(***************************************************************************)
\* faulty variant: the flag is cleared instead of flipped
toggleHealthBarsValue_Clear(hb) == FALSE

toggleHealthBarsValue(hb) == ~hb

\* faulty variant: the background pass does not restore what it saved
renderBackground_NoRestore(c, world) ==
    LET c1 == Save(c)
        c2 == SetFillStyle(c1, BgPattern)
        scale == R(20)
        c3 == Scale(c2, Div(R(1), scale), Div(R(1), scale))
    IN  FillRect(c3, Mul(world.minCorner.x, scale), Mul(world.minCorner.y, scale),
                 Mul(Sub(world.maxCorner.x, world.minCorner.x), scale),
                 Mul(Sub(world.maxCorner.y, world.minCorner.y), scale))

renderBackground(c, world) ==
    LET c1 == Save(c)
        c2 == SetFillStyle(c1, BgPattern)
        minX == world.minCorner.x
        minY == world.minCorner.y
        width == Sub(world.maxCorner.x, world.minCorner.x)
        height == Sub(world.maxCorner.y, world.minCorner.y)
        scale == R(20)
        c3 == Scale(c2, Div(R(1), scale), Div(R(1), scale))
        c4 == FillRect(c3, Mul(minX, scale), Mul(minY, scale),
                       Mul(width, scale), Mul(height, scale))
    IN  Restore(c4)

\* the switch on types[i] of renderBodies and renderBodiesInterpolated
SpriteFor(type, team) ==
    CASE type = TREE_NEUTRAL -> ImgTreeFullHealth
      [] type = TREE_BULLET -> ImgRobot("bulletTree", team)
      [] type = ARCHON -> ImgRobot("archon", team)
      [] type = GARDENER -> ImgRobot("gardener", team)
      [] type = LUMBERJACK -> ImgRobot("lumberjack", team)
      [] type = RECRUIT -> ImgRobot("recruit", team)
      [] type = SOLDIER -> ImgRobot("soldier", team)
      [] type = TANK -> ImgRobot("tank", team)
      [] type = SCOUT -> ImgRobot("scout", team)
      [] OTHER -> ImgUnknown

\* this.metadata.types[type]: <<maxHealth>>, or undefined for an unregistered code
MetadataType(this, type) ==
    IF type \in DOMAIN this.metadata THEN this.metadata[type] ELSE Undefined

\* faulty variant: the health bar is drawn whether or not the option is on
drawHealthBar_IgnoresFlag(this, c, x, y, health, type) ==
    LET bodyType == MetadataType(this, type) IN
    IF bodyType = Undefined THEN c
    ELSE LET c1 == SetFillStyle(c, "green")
             c2 == FillRect(c1, x, y, Div(Mul(HEALTH_BAR_WIDTH, health), bodyType[1]),
                            HEALTH_BAR_HEIGHT)
             c3 == SetStrokeStyle(c2, "black")
             c4 == SetLineWidth(c3, Q(1, 10))
         IN  StrokeRect(c4, x, y, HEALTH_BAR_WIDTH, HEALTH_BAR_HEIGHT)

drawHealthBar(this, c, x, y, health, type) ==
    IF ~this.healthBars THEN c
    ELSE LET bodyType == MetadataType(this, type) IN
         IF bodyType = Undefined THEN c
         ELSE LET c1 == SetFillStyle(c, "green")
                  c2 == FillRect(c1, x, y,
                                 Div(Mul(HEALTH_BAR_WIDTH, health), bodyType[1]),
                                 HEALTH_BAR_HEIGHT)
                  c3 == SetStrokeStyle(c2, "black")
                  c4 == SetLineWidth(c3, Q(1, 10))
              IN  StrokeRect(c4, x, y, HEALTH_BAR_WIDTH, HEALTH_BAR_HEIGHT)

\* one iteration of the loop of renderBodies
renderBody(this, c, world, i) ==
    LET bodies == world.bodies
        x == ToNum(At(bodies.x, i))
        y == ToNum(At(bodies.y, i))
        radius == ToNum(At(bodies.radius, i))
        team == At(bodies.team, i)
        img == SpriteFor(At(bodies.type, i), team)
        c1 == DrawImage(c, img, Sub(x, radius), Sub(y, radius),
                        Mul(radius, R(2)), Mul(radius, R(2)))
    IN  IF c1.thrown THEN c1
        ELSE drawHealthBar(this, c1, Sub(x, HEALTH_BAR_WIDTH_HALF), Add(y, radius),
                           ToNum(At(bodies.health, i)), At(bodies.type, i))

RECURSIVE renderBodiesFrom(_, _, _, _)
renderBodiesFrom(this, c, world, i) ==
    IF c.thrown \/ ~(i < world.bodies.length) THEN c
    ELSE renderBodiesFrom(this, renderBody(this, c, world, i), world, i + 1)

renderBodies(this, c, world) == renderBodiesFrom(this, c, world, 0)

\* faulty variant: the interpolation runs from the next position back to the current one
Lerp_FromNext(x, nextX, lerpAmount) == Add(nextX, Mul(Sub(x, nextX), lerpAmount))

\* x + (nextX - x) * lerpAmount
Lerp(x, nextX, lerpAmount) == Add(x, Mul(Sub(nextX, x), lerpAmount))

\* one iteration of the loop of renderBodiesInterpolated
renderBodyInterpolated(this, c, world, nextStep, lerpAmount, i) ==
    LET bodies == world.bodies
        x == ToNum(At(bodies.x, i))
        y == ToNum(At(bodies.y, i))
        nextX == ToNum(At(nextStep.x, i))
        nextY == ToNum(At(nextStep.y, i))
        realX == Lerp(x, nextX, lerpAmount)
        realY == Lerp(y, nextY, lerpAmount)
        radius == ToNum(At(bodies.radius, i))
        team == At(bodies.team, i)
        img == SpriteFor(At(bodies.type, i), team)
        c1 == DrawImage(c, img, Sub(realX, radius), Sub(realY, radius),
                        Mul(radius, R(2)), Mul(radius, R(2)))
    IN  IF c1.thrown THEN c1
        ELSE drawHealthBar(this, c1, Sub(realX, HEALTH_BAR_WIDTH_HALF), Add(realY, radius),
                           ToNum(At(bodies.health, i)), At(bodies.type, i))

RECURSIVE renderBodiesInterpolatedFrom(_, _, _, _, _, _)
renderBodiesInterpolatedFrom(this, c, world, nextStep, lerpAmount, i) ==
    IF c.thrown \/ ~(i < world.bodies.length) THEN c
    ELSE renderBodiesInterpolatedFrom(
             this, renderBodyInterpolated(this, c, world, nextStep, lerpAmount, i),
             world, nextStep, lerpAmount, i + 1)

renderBodiesInterpolated(this, c, world, nextStep, lerpAmount) ==
    renderBodiesInterpolatedFrom(this, c, world, nextStep, lerpAmount, 0)

\* faulty variant: strict comparisons against the thresholds without the epsilon
BulletSprite_Strict(speedsq) ==
    IF ~Geq(R(4), speedsq) THEN ImgBulletFast
    ELSE IF ~Geq(Q(9, 4), speedsq) THEN ImgBulletMedium
    ELSE ImgBulletSlow

\* the three-way choice of the bullet sprite on speedsq
BulletSprite(speedsq) ==
    IF Geq(speedsq, HIGH_SPEED_THRESH) THEN ImgBulletFast
    ELSE IF Geq(speedsq, MED_SPEED_THRESH) THEN ImgBulletMedium
    ELSE ImgBulletSlow

\* faulty variant: the interpolation factor is left out of the elapsed time
BulletDt_NoLerp(world, lerpAmount, i) ==
    Sub(world.turn, ToNum(At(world.bullets.spawnedTime, i)))

\* dt = (world.turn + lerpAmount) - spawnedTimes[i]
BulletDt(world, lerpAmount, i) ==
    Sub(Add(world.turn, lerpAmount), ToNum(At(world.bullets.spawnedTime, i)))

\* one iteration of the loop of renderBullets
renderBullet(c, world, lerpAmount, i) ==
    LET bullets == world.bullets
        velX == ToNum(At(bullets.velX, i))
        velY == ToNum(At(bullets.velY, i))
        dt == BulletDt(world, lerpAmount, i)
        x == Add(ToNum(At(bullets.x, i)), Mul(velX, dt))
        y == Add(ToNum(At(bullets.y, i)), Mul(velY, dt))
        speedsq == Add(Mul(velX, velX), Mul(velY, velY))
        img == BulletSprite(speedsq)
    IN  DrawImage(c, img, Sub(x, BULLET_SIZE_HALF), Sub(y, BULLET_SIZE_HALF),
                  BULLET_SIZE, BULLET_SIZE)

RECURSIVE renderBulletsFrom(_, _, _, _)
renderBulletsFrom(c, world, lerpAmount, i) ==
    IF c.thrown \/ ~(i < world.bullets.length) THEN c
    ELSE renderBulletsFrom(renderBullet(c, world, lerpAmount, i), world, lerpAmount, i + 1)

renderBullets(c, world, lerpAmount) == renderBulletsFrom(c, world, lerpAmount, 0)

\* dots and lines are the empty placeholder collections: both loops run zero
\* times and only the lineWidth assignment executes
renderIndicatorStrings(c, world) == SetLineWidth(c, INDICATOR_LINE_WIDTH)

\* the branch of render on (lerpAmount != null && nextStep != null)
Interpolating(nextStep, lerpAmount) == lerpAmount # Undefined /\ nextStep # Undefined

\* faulty variant: bodies are drawn before projectiles
renderPasses_BodiesFirst(this, c, world, nextStep, lerpAmount) ==
    IF Interpolating(nextStep, lerpAmount)
    THEN renderBullets(renderBodiesInterpolated(this, c, world, nextStep[1], lerpAmount),
                       world, lerpAmount)
    ELSE renderBullets(renderBodies(this, c, world), world, R(0))

renderPasses(this, c, world, nextStep, lerpAmount) ==
    IF Interpolating(nextStep, lerpAmount)
    THEN renderBodiesInterpolated(this, renderBullets(c, world, lerpAmount),
                                  world, nextStep[1], lerpAmount)
    ELSE renderBodies(this, renderBullets(c, world, R(0)), world)

render(this, c, world, viewMin, viewWidth, nextStep, lerpAmount) ==
    LET scale == Div(R(CanvasWidth), viewWidth)
        c1 == Save(c)
        c2 == Scale(c1, scale, scale)
        c3 == Translate(c2, Neg(viewMin.x), Neg(viewMin.y))
        c4 == renderBackground(c3, world)
        c5 == renderPasses(this, c4, world, nextStep, lerpAmount)
        c6 == renderIndicatorStrings(c5, world)
    IN  Restore(c6)

(***************************************************************************)
(* Inputs: snapshots, next steps, interpolation factors and views.         *)
(***************************************************************************)
SeqsUpTo(S, n) == UNION {[1..k -> S] : k \in 0..n}

Body(type, team, x, y, health, radius) ==
    [type |-> type, team |-> team, x |-> R(x), y |-> R(y),
     health |-> R(health), radius |-> R(radius)]

Bullet(x, y, velX, velY, spawnedTime) ==
    [x |-> R(x), y |-> R(y), velX |-> velX, velY |-> velY, spawnedTime |-> R(spawnedTime)]

\* the structure-of-arrays collections of a snapshot
BodiesSoA(s) ==
    [length |-> Len(s),
     type |-> [i \in 1..Len(s) |-> s[i].type],
     team |-> [i \in 1..Len(s) |-> s[i].team],
     x |-> [i \in 1..Len(s) |-> s[i].x],
     y |-> [i \in 1..Len(s) |-> s[i].y],
     health |-> [i \in 1..Len(s) |-> s[i].health],
     radius |-> [i \in 1..Len(s) |-> s[i].radius]]

BulletsSoA(s) ==
    [length |-> Len(s),
     x |-> [i \in 1..Len(s) |-> s[i].x],
     y |-> [i \in 1..Len(s) |-> s[i].y],
     velX |-> [i \in 1..Len(s) |-> s[i].velX],
     velY |-> [i \in 1..Len(s) |-> s[i].velY],
     spawnedTime |-> [i \in 1..Len(s) |-> s[i].spawnedTime]]

World(bodies, bullets) ==
    [bodies |-> BodiesSoA(bodies), bullets |-> BulletsSoA(bullets),
     minCorner |-> [x |-> R(0), y |-> R(0)], maxCorner |-> [x |-> R(30), y |-> R(20)],
     turn |-> R(3)]

Teams == {0, 1, 2}

\* bodies that populate the multi-body snapshots
BodyPool ==
    {Body(ARCHON, 0, 3, 4, 50, 2), Body(OTHER_TYPE, 1, 5, 5, 7, 1),
     Body(SCOUT, 2, 2, 6, 10, 1)}

\* every type code with every team, one body per snapshot
SingleBodies == {Body(ty, tm, 4, 3, 30, 1) : ty \in TypeCodes, tm \in Teams}

BulletPool ==
    {Bullet(1, 1, R(2), R(0), 0), Bullet(1, 1, Q(1999, 1000), R(0), 0),
     Bullet(2, 5, R(0), Q(-3, 2), 2), Bullet(2, 5, Q(1499, 1000), R(0), 2),
     Bullet(4, 4, Q(8, 5), Q(6, 5), 1), Bullet(4, 4, R(1), R(1), 3)}

Some(v) == <<v>>

\* next steps: position arrays of every length up to MaxBodies
NextSteps ==
    {Some([x |-> [i \in 1..k |-> R(5)], y |-> [i \in 1..k |-> R(7)]]) : k \in 0..MaxBodies}

\* interpolation factors, in and out of [0, 1)
LerpAmounts == {R(0), Q(1, 2)}
WideLerpAmounts == LerpAmounts \cup {Q(3, 2), Q(-1, 2)}

View(x, y, width) == [viewMin |-> [x |-> R(x), y |-> R(y)], viewWidth |-> R(width)]
View0 == View(0, 0, 20)
Views == {View0, View(1, 2, 10)}

Args(world, view, nextStep, lerpAmount) ==
    [world |-> world, viewMin |-> view.viewMin, viewWidth |-> view.viewWidth,
     nextStep |-> nextStep, lerpAmount |-> lerpAmount]

Body0 == Body(ARCHON, 0, 3, 4, 50, 2)
Body1 == Body(OTHER_TYPE, 1, 5, 5, 7, 1)
NextStep0 == Some([x |-> <<R(6), R(1)>>, y |-> <<R(3), R(8)>>])

\* the arguments render is called with
RenderArgs ==
    {Args(World(bs, <<>>), View0, n, t) :
        bs \in SeqsUpTo(BodyPool, MaxBodies),
        n \in NextSteps \cup {Undefined}, t \in LerpAmounts \cup {Undefined}}
    \cup
    {Args(World(<<b>>, <<>>), View0, n, t) :
        b \in SingleBodies,
        n \in {Undefined, NextStep0}, t \in {Undefined, R(0)}}
    \cup
    {Args(World(<<Body0>>, <<>>), View0, NextStep0, t) :
        t \in WideLerpAmounts}
    \cup
    {Args(World(<<Body0>>, us), View0, n, t) :
        us \in SeqsUpTo(BulletPool, MaxBullets),
        n \in {Undefined, NextStep0},
        t \in LerpAmounts \cup {Undefined}}
    \cup
    {Args(World(bs, <<Bullet(1, 1, R(2), R(0), 0)>>), v, n, t) :
        bs \in {<<Body0>>, <<Body1, Body0>>}, v \in Views,
        n \in {Undefined, NextStep0}, t \in {Undefined, Q(1, 2)}}

\* body-type metadata handed to the constructor
\* body-type metadata handed to the constructor: maxHealth per registered code
Metadata == [ty \in {ARCHON, GARDENER, SOLDIER, TREE_BULLET} |-> <<R(60)>>]

(***************************************************************************)
(* State machine.                                                          *)
(***************************************************************************)
NoFrame == <<>>

\* faulty variant: the click counter leaks into the option the draw code reads
This_ClickParity == [healthBars |-> healthBars /\ counter % 2 = 0, metadata |-> metadata]

This == [healthBars |-> healthBars, metadata |-> metadata]

\* the record of one call render(args) made in the current state
Rendered(args) ==
    LET c0 == [gs |-> ctx.gs, stack |-> ctx.stack, calls |-> <<>>, thrown |-> FALSE]
        c == render(This, c0, args.world, args.viewMin, args.viewWidth,
                    args.nextStep, args.lerpAmount)
    IN  [args |-> args, this0 |-> This, ctx0 |-> ctx, counter0 |-> counter,
         toggles0 |-> toggles,
         calls |-> c.calls, thrown |-> c.thrown,
         ctx1 |-> [gs |-> c.gs, stack |-> c.stack]]

Init ==
    /\ healthBars = TRUE
    /\ metadata = Metadata
    /\ counter = 0
    /\ indicatorString = Undefined
    /\ ctx = [gs |-> DefaultGs, stack |-> <<>>]
    /\ frame = NoFrame
    /\ prev = NoFrame
    /\ toggles = 0
    /\ pc = "idle"

\* render(world, viewMin, viewWidth, nextStep?, lerpAmount?)
Render ==
    /\ pc = "idle"
    /\ Len(ctx.stack) < MaxDepth
    /\ \E args \in RenderArgs :
          LET r == Rendered(args) IN
          /\ frame' = r
          /\ ctx' = r.ctx1
    /\ pc' = "rendered"
    /\ UNCHANGED <<healthBars, metadata, counter, indicatorString, prev, toggles>>

\* render called again with the arguments of the previous call
RenderAgain ==
    /\ pc = "rendered"
    /\ Len(ctx.stack) < MaxDepth
    /\ LET r == Rendered(frame.args) IN
       /\ frame' = r
       /\ ctx' = r.ctx1
    /\ prev' = frame
    /\ pc' = "again"
    /\ UNCHANGED <<healthBars, metadata, counter, indicatorString, toggles>>

\* the recorded frame is dropped before the next one is drawn
FrameEnd ==
    /\ pc \in {"rendered", "again"}
    /\ frame' = NoFrame
    /\ prev' = NoFrame
    /\ pc' = "idle"
    /\ UNCHANGED <<healthBars, metadata, counter, indicatorString, ctx, toggles>>

ToggleHealthBars ==
    /\ pc = "idle"
    /\ toggles < MaxToggles
    /\ healthBars' = toggleHealthBarsValue(healthBars)
    /\ toggles' = toggles + 1
    /\ UNCHANGED <<metadata, counter, indicatorString, ctx, frame, prev, pc>>

\* the canvas's mousedown listener
MouseDown ==
    /\ pc \in {"idle", "rendered"}
    /\ counter < MaxClicks
    /\ indicatorString' = counter
    /\ counter' = counter + 1
    /\ UNCHANGED <<healthBars, metadata, ctx, frame, prev, toggles, pc>>

Next == Render \/ RenderAgain \/ FrameEnd \/ ToggleHealthBars \/ MouseDown

Spec == Init /\ [][Next]_vars

(***************************************************************************)
(* Reading the recorded frame.                                             *)
(***************************************************************************)
HasFrame == pc \in {"rendered", "again"}

IsBackgroundCall(e) == e.op = "fillRect" /\ e.gs.fillStyle = BgPattern
IsBulletCall(e) == e.op = "drawImage" /\ e.args[1][1] = "bullet"
IsSpriteCall(e) == e.op = "drawImage" /\ e.args[1][1] # "bullet"
IsHealthBarCall(e) ==
    \/ e.op = "fillRect" /\ e.gs.fillStyle = "#008000"
    \/ e.op = "strokeRect"
IsBodyCall(e) == IsSpriteCall(e) \/ IsHealthBarCall(e)

\* back-to-front layer of a draw call
Layer(e) ==
    CASE IsBackgroundCall(e) -> 0
      [] IsBulletCall(e) -> 1
      [] IsBodyCall(e) -> 2
      [] OTHER -> 3

Count(cs, P(_)) == Cardinality({i \in DOMAIN cs : P(cs[i])})

\* a draw call as the method and its arguments
Sig(e) == <<e.op, e.args>>
Sigs(cs) == [i \in DOMAIN cs |-> Sig(cs[i])]

FrameInterpolating == Interpolating(frame.args.nextStep, frame.args.lerpAmount)

(***************************************************************************)
(* C1: in every render call the draw calls come in the order background,   *)
(* projectiles, bodies (sprites and health bars), overlays: the first call *)
(* is the one background fill, no background call follows a projectile     *)
(* call and no projectile call follows a body call; every projectile is    *)
(* drawn, and every body when no draw call raised.                         *)
(***************************************************************************)
C1_DrawOrder ==
    HasFrame =>
        LET cs == frame.calls
            world == frame.args.world
        IN  /\ Len(cs) >= 1
            /\ IsBackgroundCall(cs[1])
            /\ Count(cs, IsBackgroundCall) = 1
            /\ \A i, j \in DOMAIN cs : i < j => Layer(cs[i]) <= Layer(cs[j])
            /\ Count(cs, IsBulletCall) = world.bullets.length
            /\ ~frame.thrown => Count(cs, IsSpriteCall) = world.bodies.length

C1_Witness ==
    /\ HasFrame
    /\ FrameInterpolating
    /\ ~frame.thrown
    /\ Count(frame.calls, IsBulletCall) >= 1
    /\ Count(frame.calls, IsSpriteCall) >= 2
    /\ Count(frame.calls, IsHealthBarCall) >= 2

(***************************************************************************)
(* C2: when render returns normally the context's transform, fillStyle,    *)
(* strokeStyle, lineWidth and save stack are what they were before the     *)
(* call; and every projectile is drawn one save level deep, under the view *)
(* transform and the caller's fillStyle, so the background pass's scale    *)
(* and fillStyle have been undone by then.                                 *)
(***************************************************************************)
C2_StateRestored ==
    (HasFrame /\ ~frame.thrown) =>
        LET g0 == frame.ctx0.gs
            scale == Div(R(CanvasWidth), frame.args.viewWidth)
        IN  /\ frame.ctx1 = frame.ctx0
            /\ ctx = frame.ctx0
            /\ \A i \in DOMAIN frame.calls :
                  IsBulletCall(frame.calls[i]) =>
                      LET g == frame.calls[i].gs IN
                      /\ frame.calls[i].depth = Len(frame.ctx0.stack) + 1
                      /\ g.fillStyle = g0.fillStyle
                      /\ g.a = Mul(g0.a, scale)
                      /\ g.d = Mul(g0.d, scale)
                      /\ g.e = Sub(g0.e, Mul(g.a, frame.args.viewMin.x))
                      /\ g.f = Sub(g0.f, Mul(g.d, frame.args.viewMin.y))

C2_Witness ==
    /\ HasFrame
    /\ ~frame.thrown
    /\ frame.args.viewWidth = R(10)
    /\ Count(frame.calls, IsBulletCall) >= 1
    /\ Count(frame.calls, IsHealthBarCall) >= 2
    /\ ctx = [gs |-> DefaultGs, stack |-> <<>>]

(***************************************************************************)
(* C3: when a draw call raises inside render, the context's transform and  *)
(* save-stack depth are nevertheless back at their values from before the  *)
(* call.                                                                   *)
(***************************************************************************)
C3_RestoredAfterRaise ==
    (HasFrame /\ frame.thrown) =>
        /\ Len(ctx.stack) = Len(frame.ctx0.stack)
        /\ ctx.gs.a = frame.ctx0.gs.a
        /\ ctx.gs.d = frame.ctx0.gs.d
        /\ ctx.gs.e = frame.ctx0.gs.e
        /\ ctx.gs.f = frame.ctx0.gs.f

(***************************************************************************)
(* C4: render never raises, whatever the type codes and team values of the *)
(* snapshot's bodies.                                                      *)
(***************************************************************************)
C4_NeverRaises == HasFrame => ~frame.thrown

(***************************************************************************)
(* The body pass of the recorded frame, and the body pass renderBodies     *)
(* makes of the same snapshot.                                             *)
(***************************************************************************)
FrameBodySigs == Sigs(SelectSeq(frame.calls, IsBodyCall))

BlankCanvas == [gs |-> DefaultGs, stack |-> <<>>, calls |-> <<>>, thrown |-> FALSE]

DirectBodySigs == Sigs(renderBodies(frame.this0, BlankCanvas, frame.args.world).calls)

\* the next step has a position for every body slot of the snapshot
NextCoversWorld ==
    \A i \in 0..(frame.args.world.bodies.length - 1) :
        /\ At(frame.args.nextStep[1].x, i) # Undefined
        /\ At(frame.args.nextStep[1].y, i) # Undefined
        /\ ~IsNaN(At(frame.args.nextStep[1].x, i))
        /\ ~IsNaN(At(frame.args.nextStep[1].y, i))

(***************************************************************************)
(* C5 (as stated): for any snapshot and any next step, render in           *)
(* interpolated mode with factor 0 issues for the bodies the draw calls    *)
(* that renderBodies issues.                                               *)
(***************************************************************************)
C5_IdentityAtZero_AnyNext ==
    (HasFrame /\ FrameInterpolating /\ frame.args.lerpAmount = R(0)) =>
        FrameBodySigs = DirectBodySigs

(***************************************************************************)
(* C5 (amended): for any snapshot with N bodies and any next step whose    *)
(* x and y arrays hold a finite number at every index 0..N-1, render in    *)
(* interpolated mode with factor 0 issues for the bodies the draw calls    *)
(* that renderBodies issues.                                               *)
(***************************************************************************)
C5_IdentityAtZero ==
    (HasFrame /\ FrameInterpolating /\ frame.args.lerpAmount = R(0) /\ NextCoversWorld) =>
        FrameBodySigs = DirectBodySigs

C5_Witness ==
    /\ HasFrame
    /\ FrameInterpolating
    /\ frame.args.lerpAmount = R(0)
    /\ NextCoversWorld
    /\ ~frame.thrown
    /\ frame.args.world.bodies.length = 2
    /\ At(frame.args.nextStep[1].x, 0) # At(frame.args.world.bodies.x, 0)
    /\ Len(FrameBodySigs) >= 3

(***************************************************************************)
(* C6: for each body of a frame that did not raise, the sprite is followed *)
(* by the health bar's two calls - a green fillRect of width               *)
(* HEALTH_BAR_WIDTH*health/maxHealth and a black strokeRect of width       *)
(* HEALTH_BAR_WIDTH, both anchored at (x - HEALTH_BAR_WIDTH/2, y + radius) *)
(* - exactly when the flag was set when render started and the metadata    *)
(* has an entry for the body's type; otherwise the next call, if any, is   *)
(* the next sprite, drawn under an unchanged graphics state.               *)
(***************************************************************************)
BarOn(i) ==
    /\ frame.this0.healthBars
    /\ At(frame.args.world.bodies.type, i) \in DOMAIN frame.this0.metadata

\* position in frame.calls of the sprite of body i
SpriteIndex(i) ==
    2 + frame.args.world.bullets.length + i + 2 * Cardinality({j \in 0..(i - 1) : BarOn(j)})

C6_HealthBarIff ==
    (HasFrame /\ ~frame.thrown) =>
        LET cs == frame.calls
            bodies == frame.args.world.bodies
        IN  /\ Len(cs) = 1 + frame.args.world.bullets.length + bodies.length
                         + 2 * Cardinality({j \in 0..(bodies.length - 1) : BarOn(j)})
            /\ \A i \in 0..(bodies.length - 1) :
                  LET k == SpriteIndex(i)
                      radius == At(bodies.radius, i)
                      barX == Sub(Add(cs[k].args[2], radius), R(1))
                      barY == Add(cs[k].args[3], Mul(R(2), radius))
                  IN  /\ IsSpriteCall(cs[k])
                      /\ BarOn(i) =>
                            /\ cs[k + 1].op = "fillRect"
                            /\ cs[k + 1].gs.fillStyle = "#008000"
                            /\ cs[k + 1].args =
                                  <<barX, barY,
                                    Div(Mul(R(2), At(bodies.health, i)),
                                        frame.this0.metadata[At(bodies.type, i)][1]),
                                    Q(3, 10)>>
                            /\ cs[k + 2].op = "strokeRect"
                            /\ cs[k + 2].gs.strokeStyle = "#000000"
                            /\ cs[k + 2].gs.lineWidth = Q(1, 10)
                            /\ cs[k + 2].args = <<barX, barY, R(2), Q(3, 10)>>
                      /\ (~BarOn(i) /\ k < Len(cs)) =>
                            /\ IsSpriteCall(cs[k + 1])
                            /\ cs[k + 1].gs = cs[k].gs

C6_Witness ==
    /\ HasFrame
    /\ ~frame.thrown
    /\ frame.this0.healthBars
    /\ frame.args.world.bodies.length = 2
    /\ ~BarOn(0)
    /\ BarOn(1)

(***************************************************************************)
(* C7: the flag is set exactly when an even number of toggleHealthBars     *)
(* calls have been made (so two toggles in a row give back the value);     *)
(* only toggleHealthBars changes it, and that step touches neither the     *)
(* drawing context nor the recorded frame; a render call draws health bars *)
(* only if an even number of toggles preceded it, and then for every body  *)
(* whose type has metadata.                                                *)
(***************************************************************************)
C7_FlagIsToggleParity == healthBars = (toggles % 2 = 0)

C7_FrameFollowsFlag ==
    HasFrame =>
        /\ Count(frame.calls, IsHealthBarCall) > 0 => frame.toggles0 % 2 = 0
        /\ (frame.toggles0 % 2 = 0 /\ ~frame.thrown) =>
              Count(frame.calls, IsHealthBarCall) =
                  2 * Cardinality({i \in 0..(frame.args.world.bodies.length - 1) :
                        At(frame.args.world.bodies.type, i) \in DOMAIN metadata})

C7_OnlyToggleChangesFlag ==
    healthBars' # healthBars =>
        /\ toggles' = toggles + 1
        /\ healthBars' = ~healthBars
        /\ ctx' = ctx
        /\ frame' = frame
        /\ pc' = pc

C7_ToggleHealthBars ==
    /\ [](C7_FlagIsToggleParity /\ C7_FrameFollowsFlag)
    /\ [][C7_OnlyToggleChangesFlag]_vars
    /\ [][toggles' # toggles => healthBars' # healthBars]_vars

C7_Witness ==
    /\ HasFrame
    /\ toggles = 2
    /\ healthBars
    /\ frame.toggles0 = 2
    /\ Count(frame.calls, IsHealthBarCall) > 0

(***************************************************************************)
(* C8: projectile i is drawn centred at (x[i] + velX[i]*dt,                *)
(* y[i] + velY[i]*dt) with dt = (turn + t) - spawnedTime[i], where t is    *)
(* the interpolation factor when both the next step and the factor are     *)
(* supplied and 0 otherwise; the next step's contents play no part.        *)
(***************************************************************************)
C8_BulletPositions ==
    HasFrame =>
        LET cs == frame.calls
            world == frame.args.world
            b == world.bullets
            t == IF frame.args.nextStep # Undefined /\ frame.args.lerpAmount # Undefined
                 THEN frame.args.lerpAmount ELSE R(0)
        IN  \A i \in 0..(b.length - 1) :
               LET dt == Sub(Add(world.turn, t), b.spawnedTime[i + 1])
                   e == cs[2 + i]
               IN  /\ IsBulletCall(e)
                   /\ Add(e.args[2], Div(e.args[4], R(2))) = Add(b.x[i + 1], Mul(b.velX[i + 1], dt))
                   /\ Add(e.args[3], Div(e.args[5], R(2))) = Add(b.y[i + 1], Mul(b.velY[i + 1], dt))
                   /\ e.args[4] = Q(1, 4)
                   /\ e.args[5] = Q(1, 4)

\* spawnedTime 0, velocity (2, 0), turn 3, factor 0.5 supplied without a next step:
\* the projectile that started at (1, 1) is centred at (7, 1)
C8_Witness ==
    /\ HasFrame
    /\ frame.args.world.turn = R(3)
    /\ frame.args.nextStep = Undefined
    /\ frame.args.lerpAmount = Q(1, 2)
    /\ frame.args.world.bullets = BulletsSoA(<<Bullet(1, 1, R(2), R(0), 0)>>)
    /\ frame.calls[2].args = <<ImgBulletFast, Q(55, 8), Q(7, 8), Q(1, 4), Q(1, 4)>>

(***************************************************************************)
(* C9: the projectile sprite is the fast one when velX^2 + velY^2 is at    *)
(* least 4 - 0.00001, the medium one when it is below that and at least    *)
(* 2.25 - 0.00001, the slow one otherwise; speed 2 gives fast and speed    *)
(* 1.999 gives medium.                                                     *)
(***************************************************************************)
C9_SpeedTiers ==
    HasFrame =>
        LET b == frame.args.world.bullets IN
        \A i \in 0..(b.length - 1) :
           LET speedsq == Add(Mul(b.velX[i + 1], b.velX[i + 1]), Mul(b.velY[i + 1], b.velY[i + 1]))
               img == frame.calls[2 + i].args[1]
               high == Geq(speedsq, Q(399999, 100000))
               med == Geq(speedsq, Q(224999, 100000))
           IN  /\ img \in {ImgBulletFast, ImgBulletMedium, ImgBulletSlow}
               /\ img = ImgBulletFast <=> high
               /\ img = ImgBulletMedium <=> (med /\ ~high)
               /\ img = ImgBulletSlow <=> ~med
               /\ speedsq = R(4) => img = ImgBulletFast
               /\ speedsq = Mul(Q(1999, 1000), Q(1999, 1000)) => img = ImgBulletMedium

C9_Witness ==
    /\ HasFrame
    /\ frame.args.world.bullets.length = 1
    /\ frame.args.world.bullets.velX[1] = Q(1999, 1000)
    /\ frame.args.world.bullets.velY[1] = R(0)
    /\ frame.calls[2].args[1] = ImgBulletMedium

(***************************************************************************)
(* C10: a second render call with the arguments of the first issues the    *)
(* same draw calls and ends the same way, whatever mousedown events came   *)
(* between; and a render call leaves the flag, the metadata, the click     *)
(* counter and the indicator string as they were.                          *)
(***************************************************************************)
C10_SameCalls ==
    pc = "again" =>
        /\ frame.args = prev.args
        /\ Sigs(frame.calls) = Sigs(prev.calls)
        /\ frame.thrown = prev.thrown

C10_RenderKeepsState ==
    (pc' \in {"rendered", "again"} /\ pc' # pc) =>
        /\ healthBars' = healthBars
        /\ metadata' = metadata
        /\ counter' = counter
        /\ indicatorString' = indicatorString
        /\ toggles' = toggles

====
